---- MODULE Spec2Model ----
(***************************************************************************)
(* Model of src/src/components/ContactForm.tsx: a contact form with a zod  *)
(* schema, react-hook-form's handleSubmit, one fetch per accepted submit,  *)
(* a status banner and a 5-second setTimeout that clears the banner.       *)
(*                                                                         *)
(* Strings are sequences of one-character strings.  Time is counted in     *)
(* whole seconds.  One step of the model is one task of the event loop: a  *)
(* user event together with the microtasks it starts, the settling of a    *)
(* fetch together with the rest of onSubmit and of handleSubmit, or the    *)
(* firing of a timer.                                                      *)
(***************************************************************************)
EXTENDS Integers, Sequences, FiniteSets, TLC

VARIABLES
    fields,        \* the values of the three registered inputs
    errors,        \* formState.errors: failing field -> message
    isSubmitting,  \* formState.isSubmitting
    isSubmitted,   \* formState.isSubmitted (turns re-validation on change on)
    submitStatus,  \* useState: Null or [success, message]
    inflight,      \* bodies of the fetches that have not settled yet
    timers,        \* pending setTimeout callbacks: seconds left, oldest first
    statusAge,     \* seconds since submitStatus was last set (0 when absent)
    lastEvent,     \* the task of the event loop that ran last
    mounted,       \* the component is rendered and takes user events
    lastOutcome    \* response.ok of the request that settled last, or "none"

vars == <<fields, errors, isSubmitting, isSubmitted, submitStatus, inflight,
          timers, statusAge, lastEvent, mounted, lastOutcome>>

----------------------------------------------------------------------------
(* Bounds of the model. *)

MaxNameLen == 4
MaxMessageLen == 11
MaxTimers == 2

(* Program constants. *)

NameMin == 3
MessageMin == 10
DelayMs == 5000
Delay == DelayMs \div 1000

\* useState(null): no status.
Null == [absent |-> TRUE]
FieldNames == {"name", "email", "message"}

NameError == "O nome precisa ter no minimo 3 caracteres."
EmailError == "Por favor, insira um email valido."
MessageError == "A mensagem precisa ter no minimo 10 caracteres."
SuccessMessage == "Mensagem enviada com sucesso! Obrigado."
FailureMessage == "Ocorreu um erro ao enviar. Tente novamente."

----------------------------------------------------------------------------
(* Strings. *)

Str(n) == [i \in 1..n |-> "a"]
Empty == <<>>

Letter == {"a"}
Digit == {"1"}
Alnum == Letter \cup Digit

AtPos(s) == {i \in 1..Len(s) : s[i] = "@"}
LocalPart(s) == SubSeq(s, 1, (CHOOSE i \in AtPos(s) : TRUE) - 1)
DomainPart(s) == SubSeq(s, (CHOOSE i \in AtPos(s) : TRUE) + 1, Len(s))

RECURSIVE Labels(_)
Labels(d) ==
    IF \E i \in 1..Len(d) : d[i] = "."
    THEN LET i == CHOOSE k \in 1..Len(d) :
                     d[k] = "." /\ \A j \in 1..(k - 1) : d[j] # "."
         IN  <<SubSeq(d, 1, i - 1)>> \o Labels(SubSeq(d, i + 1, Len(d)))
    ELSE <<d>>

\* zod's z.string().email(), case-insensitive: no leading dot, no two dots
\* in a row, a local part of [A-Z0-9_'+-.] ending in [A-Z0-9_+-], an "@",
\* one or more labels [A-Z0-9][A-Z0-9-]* each followed by a dot, and a
\* top-level label of two or more letters.
ZodLocalChars == Alnum \cup {"_", "'", "+", "-", "."}
ZodLocalEnd == Alnum \cup {"_", "+", "-"}
ZodLabel(l) ==
    /\ Len(l) >= 1
    /\ l[1] \in Alnum
    /\ \A i \in 2..Len(l) : l[i] \in Alnum \cup {"-"}
ZodTld(l) == Len(l) >= 2 /\ \A i \in 1..Len(l) : l[i] \in Letter
ZodDomain(d) ==
    LET L == Labels(d)
    IN  /\ Len(L) >= 2
        /\ \A k \in 1..(Len(L) - 1) : ZodLabel(L[k])
        /\ ZodTld(L[Len(L)])
IsEmail(s) ==
    /\ Len(s) >= 1
    /\ s[1] # "."
    /\ ~ \E i \in 1..(Len(s) - 1) : s[i] = "." /\ s[i + 1] = "."
    /\ Cardinality(AtPos(s)) = 1
    /\ LET l == LocalPart(s)
       IN  /\ Len(l) >= 1
           /\ \A i \in 1..Len(l) : l[i] \in ZodLocalChars
           /\ l[Len(l)] \in ZodLocalEnd
    /\ ZodDomain(DomainPart(s))

(* The browser's check of <input type="email"> before it fires the submit  *)
(* event (the form has no noValidate): a non-empty value that is no valid  *)
(* e-mail address of the HTML standard is a type mismatch.  The backquote, *)
(* also allowed in the local part, is left out of HtmlAtext: no value of   *)
(* the model holds one.                                                    *)
HtmlAtext == Alnum \cup {"!", "#", "$", "%", "&", "'", "*", "+", "/", "=",
                         "?", "^", "_", "{", "|", "}", "~", "-"}
HtmlLabel(l) ==
    /\ Len(l) >= 1
    /\ Len(l) <= 63
    /\ l[1] \in Alnum
    /\ l[Len(l)] \in Alnum
    /\ \A i \in 1..Len(l) : l[i] \in Alnum \cup {"-"}
HtmlEmail(s) ==
    /\ Cardinality(AtPos(s)) = 1
    /\ LET l == LocalPart(s)
       IN  /\ Len(l) >= 1
           /\ \A i \in 1..Len(l) : l[i] \in HtmlAtext \cup {"."}
    /\ LET L == Labels(DomainPart(s))
       IN  \A k \in 1..Len(L) : HtmlLabel(L[k])
TypeMismatch(s) == s # Empty /\ ~HtmlEmail(s)

----------------------------------------------------------------------------
(* The values a user types. *)

Names == {Str(n) : n \in {0} \cup ((NameMin - 1)..MaxNameLen)}
Messages == {Str(n) : n \in {0} \cup ((MessageMin - 1)..MaxMessageLen)}
Emails ==
    { Empty,
      <<"a">>,
      <<"a", "@", "a">>,
      <<"a", "@", "a", ".", "a", "a">>,
      <<"a", ".", "@", "a", ".", "a", "a">>,
      <<"a", "@", "a", "-", ".", "a", "a">> }
Values(f) ==
    CASE f = "name" -> Names
      [] f = "email" -> Emails
      [] f = "message" -> Messages

----------------------------------------------------------------------------
(* contactFormSchema and its resolver. *)

(* Variant: the minimum lengths compared with > instead of >=. *)
RuleHoldsOffByOne(f, v) ==
    CASE f = "name" -> Len(v) > NameMin
      [] f = "email" -> IsEmail(v)
      [] f = "message" -> Len(v) > MessageMin

RuleHolds(f, v) ==
    CASE f = "name" -> Len(v) >= NameMin
      [] f = "email" -> IsEmail(v)
      [] f = "message" -> Len(v) >= MessageMin

ErrorMessage(f) ==
    CASE f = "name" -> NameError
      [] f = "email" -> EmailError
      [] f = "message" -> MessageError

ErrorsOn(S) == [f \in S |-> ErrorMessage(f)]

(* The resolver's field -> error map; empty when the data is valid. *)
Validate(data) == ErrorsOn({f \in FieldNames : ~RuleHolds(f, data[f])})

(* JSON.stringify(data): the schema's three keys, in order, with values. *)
JSONstringify(data) ==
    << <<"name", data.name>>, <<"email", data.email>>,
       <<"message", data.message>> >>

DefaultValues == [name |-> Empty, email |-> Empty, message |-> Empty]

----------------------------------------------------------------------------
(* The rendered controls. *)

InputsNeverDisabled == FALSE
InputsDisabled == isSubmitting

ButtonNeverDisabled == FALSE
ButtonDisabled == isSubmitting

(* handleSubmit calls onSubmit when the resolver reports no error. *)
AcceptsAnything(data) == TRUE
Accepts(data) == Validate(data) = ErrorsOn({})

(* setSubmitStatus(null) at the start of onSubmit. *)
KeepStatus(status) == status
ClearStatus(status) == Null

(* reset(): the inputs return to their default values. *)
ResetKeepsValues(values) == values
Reset(values) == DefaultValues

(* finally: setTimeout(() => setSubmitStatus(null), 5000) *)
ScheduleNothing(ts) == ts
ScheduleTwice(ts) == Append(Append(ts, Delay), Delay)
Schedule(ts) == Append(ts, Delay)

Without(s, i) == SubSeq(s, 1, i - 1) \o SubSeq(s, i + 1, Len(s))

Success == [success |-> TRUE, message |-> SuccessMessage]
(* Variant of Failure: the catch block marks its status a success. *)
FailureMarkedSuccess == [success |-> TRUE, message |-> FailureMessage]
Failure == [success |-> FALSE, message |-> FailureMessage]

----------------------------------------------------------------------------
Init ==
    /\ fields = DefaultValues
    /\ errors = ErrorsOn({})
    /\ isSubmitting = FALSE
    /\ isSubmitted = FALSE
    /\ submitStatus = Null
    /\ inflight = <<>>
    /\ timers = <<>>
    /\ statusAge = 0
    /\ lastEvent = "init"
    /\ mounted = TRUE
    /\ lastOutcome = "none"

(* The user changes one input.  After the first submit react-hook-form     *)
(* re-validates on change and updates the changed field's error.           *)
SetField ==
    /\ mounted
    /\ ~InputsDisabled
    /\ \E f \in FieldNames : \E v \in Values(f) :
          /\ v # fields[f]
          /\ fields' = [fields EXCEPT ![f] = v]
          /\ errors' = IF isSubmitted
                       THEN ErrorsOn((DOMAIN errors \ {f}) \cup
                                     (IF RuleHolds(f, v) THEN {} ELSE {f}))
                       ELSE errors
    /\ lastEvent' = "edit"
    /\ UNCHANGED <<isSubmitting, isSubmitted, submitStatus, inflight, timers,
                   statusAge, mounted, lastOutcome>>

(* A click on the submit control while it is disabled: no submit event. *)
ClickIgnored ==
    /\ mounted
    /\ ButtonDisabled
    /\ lastEvent' = "ignored"
    /\ UNCHANGED <<fields, errors, isSubmitting, isSubmitted, submitStatus,
                   inflight, timers, statusAge, mounted, lastOutcome>>

(* A click the browser's constraint validation stops: no submit event. *)
ClickBlocked ==
    /\ mounted
    /\ ~ButtonDisabled
    /\ TypeMismatch(fields.email)
    /\ lastEvent' = "blocked"
    /\ UNCHANGED <<fields, errors, isSubmitting, isSubmitted, submitStatus,
                   inflight, timers, statusAge, mounted, lastOutcome>>

(* Variant of SubmitInvalid: the status is cleared before validation. *)
SubmitInvalidClearsStatus ==
    /\ mounted
    /\ ~ButtonDisabled
    /\ ~TypeMismatch(fields.email)
    /\ ~Accepts(fields)
    /\ errors' = Validate(fields)
    /\ isSubmitted' = TRUE
    /\ submitStatus' = Null
    /\ statusAge' = 0
    /\ lastEvent' = "invalid"
    /\ UNCHANGED <<fields, isSubmitting, inflight, timers, mounted,
                   lastOutcome>>

(* handleSubmit, the resolver reports errors: onSubmit is not called. *)
SubmitInvalid ==
    /\ mounted
    /\ ~ButtonDisabled
    /\ ~TypeMismatch(fields.email)
    /\ ~Accepts(fields)
    /\ errors' = Validate(fields)
    /\ isSubmitted' = TRUE
    /\ lastEvent' = "invalid"
    /\ UNCHANGED <<fields, isSubmitting, submitStatus, inflight, timers,
                   statusAge, mounted, lastOutcome>>

(* handleSubmit, the resolver reports no error: onSubmit(data) runs up to  *)
(* its await of fetch.                                                     *)
SubmitValid ==
    /\ mounted
    /\ ~ButtonDisabled
    /\ ~TypeMismatch(fields.email)
    /\ Accepts(fields)
    /\ Len(timers) + Len(inflight) < MaxTimers
    /\ errors' = ErrorsOn({})
    /\ isSubmitting' = TRUE
    /\ submitStatus' = ClearStatus(submitStatus)
    /\ statusAge' = 0
    /\ inflight' = Append(inflight, JSONstringify(fields))
    /\ lastEvent' = "accepted"
    /\ UNCHANGED <<fields, isSubmitted, timers, mounted, lastOutcome>>

(* The fetch resolves with response.ok: the rest of the try block, the     *)
(* finally block and the end of handleSubmit.                              *)
RespondOk ==
    /\ \E i \in 1..Len(inflight) : inflight' = Without(inflight, i)
    /\ submitStatus' = Success
    /\ statusAge' = 0
    /\ fields' = Reset(fields)
    /\ errors' = ErrorsOn({})
    /\ timers' = Schedule(timers)
    /\ isSubmitting' = FALSE
    /\ isSubmitted' = TRUE
    /\ lastEvent' = "ok"
    /\ lastOutcome' = "ok"
    /\ UNCHANGED mounted

(* Variant of Failed: the request is sent again after a failure. *)
FailedRetries(i) ==
    /\ inflight' = Append(Without(inflight, i), inflight[i])
    /\ submitStatus' = Failure
    /\ statusAge' = 0
    /\ timers' = timers
    /\ UNCHANGED <<fields, errors, isSubmitting, isSubmitted>>

(* Variant of Failed: the catch block sets no status. *)
FailedSilently(i) ==
    /\ inflight' = Without(inflight, i)
    /\ submitStatus' = Null
    /\ statusAge' = 0
    /\ timers' = Schedule(timers)
    /\ isSubmitting' = FALSE
    /\ isSubmitted' = TRUE
    /\ UNCHANGED <<fields, errors>>

(* The catch block, the finally block and the end of handleSubmit. *)
Failed(i) ==
    /\ inflight' = Without(inflight, i)
    /\ submitStatus' = Failure
    /\ statusAge' = 0
    /\ timers' = Schedule(timers)
    /\ isSubmitting' = FALSE
    /\ isSubmitted' = TRUE
    /\ UNCHANGED <<fields, errors>>

(* The fetch resolves with a response that is not ok: onSubmit throws. *)
RespondNotOk ==
    /\ \E i \in 1..Len(inflight) : Failed(i)
    /\ lastEvent' = "notok"
    /\ lastOutcome' = "failed"
    /\ UNCHANGED mounted

(* The fetch rejects (network failure). *)
FetchThrows ==
    /\ \E i \in 1..Len(inflight) : Failed(i)
    /\ lastEvent' = "throw"
    /\ lastOutcome' = "failed"
    /\ UNCHANGED mounted

(* The oldest pending timer is due: setSubmitStatus(null). *)
TimerFire ==
    /\ Len(timers) >= 1
    /\ timers[1] = 0
    /\ timers' = Tail(timers)
    /\ submitStatus' = Null
    /\ statusAge' = 0
    /\ lastEvent' = "timer"
    /\ UNCHANGED <<fields, errors, isSubmitting, isSubmitted, inflight,
                   mounted, lastOutcome>>

(* Variant of Unmount: a cleanup clears the timers and aborts the fetch. *)
UnmountCancels ==
    /\ mounted
    /\ mounted' = FALSE
    /\ lastEvent' = "unmount"
    /\ timers' = <<>>
    /\ inflight' = <<>>
    /\ UNCHANGED <<fields, errors, isSubmitting, isSubmitted, submitStatus,
                   statusAge, lastOutcome>>

(* The component unmounts.  It registers no cleanup: no clearTimeout, no   *)
(* abort of the fetch.  What onSubmit and the timers do afterwards is      *)
(* unchanged; submitStatus is then the value last given to                 *)
(* setSubmitStatus, which nothing renders.                                 *)
Unmount ==
    /\ mounted
    /\ mounted' = FALSE
    /\ lastEvent' = "unmount"
    /\ UNCHANGED <<fields, errors, isSubmitting, isSubmitted, submitStatus,
                   inflight, timers, statusAge, lastOutcome>>

(* One second passes; a due timer fires before time moves on. *)
Tick ==
    /\ \A i \in 1..Len(timers) : timers[i] > 0
    /\ timers' = [i \in 1..Len(timers) |-> timers[i] - 1]
    /\ statusAge' = IF submitStatus # Null /\ statusAge <= Delay
                    THEN statusAge + 1 ELSE statusAge
    /\ lastEvent' = "tick"
    /\ UNCHANGED <<fields, errors, isSubmitting, isSubmitted, submitStatus,
                   inflight, mounted, lastOutcome>>

Next ==
    \/ SetField
    \/ ClickIgnored
    \/ ClickBlocked
    \/ SubmitInvalid
    \/ SubmitValid
    \/ RespondOk
    \/ RespondNotOk
    \/ FetchThrows
    \/ TimerFire
    \/ Unmount
    \/ Tick

Spec == Init /\ [][Next]_vars

(* The event loop runs due timers and time does not stop. *)
LiveSpec == Spec /\ WF_vars(Tick) /\ WF_vars(TimerFire)

TypeOK ==
    /\ fields \in [name : Names, email : Emails, message : Messages]
    /\ DOMAIN errors \subseteq FieldNames
    /\ isSubmitting \in BOOLEAN
    /\ isSubmitted \in BOOLEAN
    /\ submitStatus \in {Null, Success, Failure}
    /\ Len(timers) <= MaxTimers
    /\ \A i \in 1..Len(timers) : timers[i] \in 0..Delay
    /\ statusAge \in 0..(Delay + 1)
    /\ mounted \in BOOLEAN
    /\ lastOutcome \in {"none", "ok", "failed"}

----------------------------------------------------------------------------
(* Properties. *)

ClickEvents == {"ignored", "blocked", "invalid", "accepted"}
SettleEvents == {"ok", "notok", "throw"}
Body(values) ==
    << <<"name", values.name>>, <<"email", values.email>>,
       <<"message", values.message>> >>

\* C1: a submit attempt whose name is shorter than 3, whose email is not a
\* valid email or whose message is shorter than 10 issues no POST and does
\* not enter onSubmit: every step that adds a request starts from fields that
\* pass all three rules, and a rejected submit leaves the requests and the
\* status as they were.
C1_ValidationBlocksSubmission ==
    [][ /\ Len(inflight') > Len(inflight) =>
             /\ Len(fields.name) >= 3
             /\ IsEmail(fields.email)
             /\ Len(fields.message) >= 10
        /\ lastEvent' \in {"invalid", "blocked"} =>
             /\ inflight' = inflight
             /\ submitStatus' = submitStatus
             /\ isSubmitting' = isSubmitting ]_vars

C1_Witness ==
    /\ lastEvent = "invalid"
    /\ Len(fields.name) < 3
    /\ IsEmail(fields.email)
    /\ Len(fields.message) >= 10
    /\ inflight = <<>>

\* C2: a submit attempt that passes validation issues exactly one POST whose
\* body holds the three field values of that moment; requests are issued by
\* nothing else, and a settled request, ok or not, is not sent again.
C2_OnePostPerSubmit ==
    [][ /\ lastEvent' = "accepted" =>
             inflight' = Append(inflight, Body(fields))
        /\ Len(inflight') > Len(inflight) => lastEvent' = "accepted"
        /\ lastEvent' \in SettleEvents =>
             /\ Len(inflight) >= 1
             /\ Len(inflight') = Len(inflight) - 1 ]_vars

C2_Witness ==
    /\ lastEvent \in {"notok", "throw"}
    /\ inflight = <<>>
    /\ submitStatus = Failure

\* C3: while a submission is in flight a click on submit has no effect: at
\* most one request is outstanding, and a click between the start of a
\* submission and its response changes no state and issues no POST.
C3_NoResubmitInFlight ==
    /\ [](Len(inflight) <= 1)
    /\ [][ (Len(inflight) >= 1 /\ lastEvent' \in ClickEvents) =>
             /\ lastEvent' = "ignored"
             /\ UNCHANGED <<fields, errors, isSubmitting, isSubmitted,
                            submitStatus, inflight, timers, statusAge>> ]_vars

C3_Witness ==
    /\ lastEvent = "ignored"
    /\ Len(inflight) = 1
    /\ isSubmitting

\* C4: when the request completes with an ok status the three fields are
\* cleared and the status is the success status.
C4_OkClearsFields ==
    lastEvent = "ok" =>
        /\ fields.name = Empty
        /\ fields.email = Empty
        /\ fields.message = Empty
        /\ submitStatus = [success |-> TRUE, message |-> SuccessMessage]

C4_Witness ==
    /\ lastEvent = "ok"
    /\ submitStatus # Null
    /\ Len(timers) = 2

\* C5: when the request throws or completes with a status that is not ok,
\* the status is the failure status, the same for both kinds, and the three
\* fields hold what they held when the attempt started.
C5_FailureKeepsFields ==
    [][ lastEvent' \in {"notok", "throw"} =>
          /\ submitStatus' = [success |-> FALSE, message |-> FailureMessage]
          /\ \E i \in 1..Len(inflight) :
                /\ inflight' = Without(inflight, i)
                /\ Body(fields') = inflight[i] ]_vars

C5_Witness ==
    /\ lastEvent = "throw"
    /\ submitStatus = Failure
    /\ Len(fields.name) = 4
    /\ Len(fields.message) = 11

\* C6: a status that is present is never older than the 5-second delay, and
\* from every state with a status present the status becomes absent, whatever
\* the user does meanwhile.
C6_StatusCleared ==
    /\ [](submitStatus # Null => statusAge <= Delay)
    /\ ((submitStatus # Null) ~> (submitStatus = Null))

C6_Witness ==
    /\ submitStatus # Null
    /\ statusAge = Delay
    /\ Len(timers) = 1
    /\ timers[1] = 0

\* C7: at most one auto-clear timer is pending at any time.
C7_OnePendingTimer == Len(timers) <= 1

\* C8: in every state where a request is in flight the status is absent:
\* a new submit attempt clears the status of the attempt before it.
C8_NoStatusInFlight == Len(inflight) >= 1 => submitStatus = Null

C8_Witness ==
    /\ lastEvent = "accepted"
    /\ Len(inflight) = 1
    /\ Len(timers) = 1
    /\ timers[1] > 0
    /\ submitStatus = Null

\* C9: after the validator has run on the fields, the error map has an entry
\* for name iff its length is below 3, for message iff its length is below
\* 10, and for email iff it is not a valid email; fields that satisfy the
\* three rules yield no error and the payload with the three values.
C9_ErrorsMatchRules ==
    lastEvent \in {"invalid", "accepted"} =>
        /\ ("name" \in DOMAIN errors) <=> (Len(fields.name) < 3)
        /\ ("message" \in DOMAIN errors) <=> (Len(fields.message) < 10)
        /\ ("email" \in DOMAIN errors) <=> ~IsEmail(fields.email)
        /\ DOMAIN errors \subseteq FieldNames
        /\ ("name" \in DOMAIN errors) => errors["name"] = NameError
        /\ ("message" \in DOMAIN errors) => errors["message"] = MessageError
        /\ ("email" \in DOMAIN errors) => errors["email"] = EmailError
        /\ (Len(fields.name) >= 3 /\ Len(fields.message) >= 10
              /\ IsEmail(fields.email)) =>
             /\ lastEvent = "accepted"
             /\ errors = <<>>
             /\ inflight[Len(inflight)] = Body(fields)

C9_Witness ==
    /\ lastEvent = "invalid"
    /\ Len(fields.name) = 3
    /\ Len(fields.message) = 9
    /\ DOMAIN errors = {"message", "email"}

\* C10: a status is cleared only by a new submit attempt or after it has
\* been present for the full 5 seconds; the timer of an earlier attempt does
\* not clear it.
C10_NoStaleTimerClear ==
    [][ (submitStatus # Null /\ submitStatus' = Null
            /\ lastEvent' # "accepted") => statusAge = Delay ]_vars

\* The submitter's state of section 4.2, read off the form state.
Phase(submitting, status) ==
    IF submitting THEN "Submitting"
    ELSE IF status = Null THEN "Idle"
    ELSE IF status.success THEN "Succeeded" ELSE "Failed"

\* C11 as stated: Submitting is entered only from Idle, Succeeded and Failed
\* only from Submitting, and Succeeded and Failed are left only by the
\* timeout, to Idle.
C11_OnlyIdleSubmits ==
    [][ LET p == Phase(isSubmitting, submitStatus)
            q == Phase(isSubmitting', submitStatus')
        IN  p # q =>
              \/ p = "Idle" /\ q = "Submitting"
              \/ p = "Submitting" /\ q \in {"Succeeded", "Failed"}
              \/ p \in {"Succeeded", "Failed"} /\ q = "Idle"
                   /\ lastEvent' = "timer" ]_vars

\* C11, amended: the submitter moves along Idle -> Submitting ->
\* (Succeeded | Failed) -> Idle, and also from Succeeded or Failed straight
\* to Submitting when a validated submit starts while the status is shown.
\* Submitting is entered only by a validated submit, Succeeded only by an ok
\* response and Failed only by a failed request, both only from Submitting,
\* and Succeeded and Failed are left only by a timer firing (to Idle) or by a
\* validated submit (to Submitting).
C11_Transitions ==
    [][ LET p == Phase(isSubmitting, submitStatus)
            q == Phase(isSubmitting', submitStatus')
        IN  p # q =>
              \/ /\ p \in {"Idle", "Succeeded", "Failed"}
                 /\ q = "Submitting"
                 /\ lastEvent' = "accepted"
              \/ p = "Submitting" /\ q = "Succeeded" /\ lastEvent' = "ok"
              \/ /\ p = "Submitting"
                 /\ q = "Failed"
                 /\ lastEvent' \in {"notok", "throw"}
              \/ /\ p \in {"Succeeded", "Failed"}
                 /\ q = "Idle"
                 /\ lastEvent' = "timer" ]_vars

\* A validated submit has started while the status of the attempt before it
\* was still shown: its timer, set in the same second, is still pending.
C11_Witness ==
    /\ lastEvent = "accepted"
    /\ Phase(isSubmitting, submitStatus) = "Submitting"
    /\ Len(timers) = 1
    /\ timers[1] = Delay

\* C12: the three inputs and the submit control are disabled exactly while a
\* request is in flight, from the validated submit until it settles, and are
\* enabled again after either outcome, so that a new attempt can start.
C12_DisabledWhileInFlight ==
    /\ InputsDisabled <=> Len(inflight) >= 1
    /\ ButtonDisabled <=> Len(inflight) >= 1
    /\ lastEvent = "accepted" => InputsDisabled /\ ButtonDisabled
    /\ lastEvent \in SettleEvents => ~InputsDisabled /\ ~ButtonDisabled

\* A second attempt has failed: the retry after the first failure did start,
\* and the controls are enabled once more.
C12_Witness ==
    /\ lastEvent \in {"notok", "throw"}
    /\ mounted
    /\ Len(timers) = 2
    /\ ~InputsDisabled
    /\ ~ButtonDisabled
    /\ Accepts(fields)

\* C13: unmounting cancels nothing.  The timers and the request pending at
\* the unmount stay pending; after the unmount a request that settles still
\* sets its status and schedules its timer, a due timer still resets the
\* status, and every timer pending after the unmount does fire.
C13_NoCancelOnUnmount ==
    /\ [][ lastEvent' = "unmount" =>
             /\ timers' = timers
             /\ inflight' = inflight ]_vars
    /\ [][ (~mounted /\ lastEvent' \in SettleEvents) =>
             /\ submitStatus' \in {Success, Failure}
             /\ timers' = Append(timers, Delay) ]_vars
    /\ [][ (~mounted /\ Len(timers') < Len(timers)) =>
             /\ lastEvent' = "timer"
             /\ timers[1] = 0
             /\ submitStatus' = Null ]_vars
    /\ [][ (~mounted /\ Len(inflight') < Len(inflight)) =>
             lastEvent' \in SettleEvents ]_vars
    /\ ((~mounted /\ Len(timers) >= 1) ~> (~mounted /\ lastEvent = "timer"))

\* After the unmount the request that was in flight has settled and has
\* scheduled its timer, while an earlier timer is still pending.
C13_Witness ==
    /\ ~mounted
    /\ lastEvent \in SettleEvents
    /\ submitStatus # Null
    /\ Len(timers) = 2
    /\ timers[1] < Delay
    /\ timers[2] = Delay

\* C14: a submit attempt that fails validation changes nothing but the
\* validation errors: the field values and the status, also one still shown
\* from an earlier attempt, stay as they were, no request is issued and no
\* timer is scheduled; the errors become those of the failing fields.
C14_InvalidSubmitFrame ==
    [][ lastEvent' = "invalid" =>
          /\ fields' = fields
          /\ submitStatus' = submitStatus
          /\ statusAge' = statusAge
          /\ timers' = timers
          /\ inflight' = inflight
          /\ isSubmitting' = isSubmitting
          /\ DOMAIN errors' # {}
          /\ DOMAIN errors' =
               {f \in FieldNames :
                  \/ f = "name" /\ Len(fields.name) < 3
                  \/ f = "email" /\ ~IsEmail(fields.email)
                  \/ f = "message" /\ Len(fields.message) < 10} ]_vars

\* A rejected submit while the status of an earlier attempt is shown and
\* its timer is pending.
C14_Witness ==
    /\ lastEvent = "invalid"
    /\ submitStatus = Failure
    /\ statusAge >= 1
    /\ Len(timers) = 1
    /\ "message" \in DOMAIN errors

\* C15: every request that settles, ok or not, schedules exactly one timer,
\* with the full delay, in the step that has set its outcome status, and
\* nothing else schedules a timer; so over any run as many timers have been
\* scheduled as requests have settled.
C15_OneTimerPerSettle ==
    [][ /\ lastEvent' \in SettleEvents =>
             /\ Len(inflight') = Len(inflight) - 1
             /\ timers' = Append(timers, Delay)
             /\ submitStatus' \in {Success, Failure}
             /\ statusAge' = 0
        /\ Len(timers') > Len(timers) => lastEvent' \in SettleEvents
        /\ lastEvent' \in ClickEvents => timers' = timers ]_vars

\* Both paths have scheduled their timer: a failed attempt, then an attempt
\* that succeeded a second later.
C15_Witness ==
    /\ lastEvent = "ok"
    /\ submitStatus = Success
    /\ Len(timers) = 2
    /\ timers[1] = Delay - 1
    /\ timers[2] = Delay
    /\ inflight = <<>>

\* C16: whenever a status is present, its success flag is true iff the
\* request that settled last returned an ok status, and its message is the
\* success message iff the flag is true (the failure message otherwise); no
\* status is present before the first request has settled.
C16_StatusMatchesOutcome ==
    /\ lastOutcome = "none" => submitStatus = Null
    /\ submitStatus # Null =>
         /\ lastOutcome \in {"ok", "failed"}
         /\ submitStatus.success <=> lastOutcome = "ok"
         /\ submitStatus.message = SuccessMessage <=> submitStatus.success
         /\ submitStatus.message = FailureMessage <=> ~submitStatus.success

\* A failure status is shown, the user is typing, and the timer of an
\* earlier attempt is pending beside its own.
C16_Witness ==
    /\ submitStatus # Null
    /\ ~submitStatus.success
    /\ lastOutcome = "failed"
    /\ Len(timers) = 2
    /\ lastEvent = "edit"
====
